---- MODULE Spec2Model ----
(***************************************************************************)
(* Anonymous posting board (src/app.py): users, posts, likes and comments *)
(* in one relational store, the request handlers that change it, and the  *)
(* listings (timeline, mypage, admin_deleted_posts) that read it.          *)
(*                                                                         *)
(* A handler is one action.  like and register first query a row and      *)
(* write later in the same request, with no lock held in between, so each  *)
(* is also given as two steps, the query and the commit; the requests      *)
(* between the two steps are kept in `inflight`.                           *)
(*                                                                         *)
(* The store starts with the empty tables of db.create_all(); the demo     *)
(* rows of create_dummy_data are not modelled.  The clock is taken to      *)
(* never run backwards.                                                    *)
(*                                                                         *)
(* The state space of all requests with all inputs is too large to         *)
(* enumerate, so there are several specifications over the same handlers,  *)
(* each with the inputs of the requests it is about left free and the      *)
(* inputs of the other requests held fixed:                                *)
(*   Spec       like requests interleaved with each other                  *)
(*   SpecLikes  like requests of every user on every post, one at a time   *)
(*   SpecSeq    posts of every user, deleted and commented on by everyone  *)
(*   SpecPost   posts with texts at and around the length limit            *)
(*   SpecClock  posts and deletions while the clock advances               *)
(*   SpecViews  posts into channels, deletions, and the listings           *)
(*   SpecChannels  posts into channels and the timeline under every filter *)
(*   SpecOrder  the listings while the clock advances                      *)
(*   SpecComments  comments of every user on every post                    *)
(*   SpecRegister  registrations interleaved with each other               *)
(***************************************************************************)
EXTENDS Integers, Sequences, FiniteSets, Bags, TLC

\* ------------------------------------------------------------------ bounds
MaxPosts == 2        \* rows the posts table may hold
MaxComments == 1     \* rows the comments table may hold
MaxTime == 1         \* readings of the clock: 0 .. MaxTime
MaxInflight == 2     \* requests that may be between their query and commit
MaxLikeId == 2       \* largest id the likes table may hand out

\* --------------------------------------------------------------- constants
ALLOWED_CHANNELS == {"general", "job", "class", "circle"}

MAX_CONTENT == 140

\* A nullable DateTime column that holds no value.
NULL == -1

\* app.config["SECRET_KEY"], read once when the process starts.
SECRET_KEY == "default-secret-key"

\* ---------------------------------------------------------- request inputs
\* A text is a sequence of runs of characters; a run is n whitespace or n
\* non-whitespace characters, and neighbouring runs differ in kind.
Ws(n) == [ws |-> TRUE, n |-> n]
Ch(n) == [ws |-> FALSE, n |-> n]

\* A form field or query parameter: sent with a value, or not sent.
Sent(v) == [given |-> TRUE, value |-> v]
Unsent == [given |-> FALSE, value |-> <<>>]

RECURSIVE len(_)
len(s) == IF s = <<>> THEN 0 ELSE Head(s).n + len(Tail(s))

RECURSIVE lstrip(_)
lstrip(s) == IF s # <<>> /\ Head(s).ws THEN lstrip(Tail(s)) ELSE s

RECURSIVE rstrip(_)
rstrip(s) ==
    IF s # <<>> /\ s[Len(s)].ws THEN rstrip(SubSeq(s, 1, Len(s) - 1)) ELSE s

\* str.strip(): the text without its leading and trailing whitespace.
strip(s) == rstrip(lstrip(s))

\* request.form.get(name) or "": an unsent field reads as the empty text.
form_text(f) == IF f.given THEN f.value ELSE <<>>

\* request.form.get(name, default) / request.args.get(name, default)
form_get(f, default) == IF f.given THEN f.value ELSE default

\* Texts a client submits as post content.
Contents ==
    { Unsent, Sent(<<Ws(2)>>), Sent(<<Ws(1), Ch(1), Ws(1)>>),
      Sent(<<Ch(MAX_CONTENT + 1)>>) }

\* Texts at and around the length limit, with and without padding.
LongContents ==
    { Sent(<<>>), Sent(<<Ch(MAX_CONTENT)>>),
      Sent(<<Ws(1), Ch(MAX_CONTENT), Ws(1)>>),
      Sent(<<Ch(70), Ws(1), Ch(MAX_CONTENT - 71)>>),
      Sent(<<Ch(70), Ws(1), Ch(MAX_CONTENT - 70)>>),
      Sent(<<Ws(1), Ch(MAX_CONTENT + 1)>>) }

\* Texts a client submits as comment content.
CommentContents == { Unsent, Sent(<<Ws(1)>>), Sent(<<Ch(1), Ws(1)>>) }

\* Channel codes a client submits, valid and not.
Channels == { Unsent, Sent("general"), Sent("job"), Sent("bogus") }

\* Values of the timeline's ?channel= parameter.
Filters ==
    { Unsent, Sent("general"), Sent("job"), Sent("class"), Sent("bogus") }

Usernames == {"alice", "bob"}

\* Post ids a client may put in a URL, of rows that exist and that do not.
PostIds == 1 .. MaxPosts

\* ------------------------------------------------------------------- state
VARIABLES
    users,      \* table users: sequence of rows, row i has id i
    posts,      \* table posts: sequence of rows, row i has id i
    likes,      \* table likes: set of rows [id, user_id, post_id]
    comments,   \* table comments: sequence of rows, row i has id i
    now,        \* the reading of datetime.utcnow()
    inflight,   \* bag of the requests between their query and their commit
    toggles,    \* per (user, post): completed like requests, modulo 2
    resp        \* the last completed request and its outcome

vars == <<users, posts, likes, comments, now, inflight, toggles, resp>>

\* The server has a worker free to take a request that may have to wait.
worker_free == BagCardinality(inflight) < MaxInflight

\* What the client gets back: the handler that answered, its outcome (the
\* flash message or the error page), and the rows of a rendered listing.
\* `repeat` marks a delete_post that found its post already soft-deleted.
Response(op, status, body) ==
    [op |-> op, status |-> status, body |-> body, repeat |-> FALSE]

UserIds == 1 .. Len(users)

Range(s) == { s[i] : i \in 1 .. Len(s) }

Init ==
    /\ users = <<>>
    /\ posts = <<>>
    /\ likes = {}
    /\ comments = <<>>
    /\ now = 0
    /\ inflight = EmptyBag
    /\ toggles = [u \in 1 .. Cardinality(Usernames), p \in PostIds |-> 0]
    /\ resp = Response("none", "none", <<>>)

\* The clock advances between requests.
Tick ==
    /\ now < MaxTime
    /\ now' = now + 1
    /\ UNCHANGED <<users, posts, likes, comments, inflight, toggles, resp>>

\* ------------------------------------------------------------ the queries
\* Post.query.get_or_404(post_id): the row, when there is one.
post_exists(post_id) == post_id \in 1 .. Len(posts)

\* The orders in which a query with ORDER BY key DESC may return the rows
\* with ids S: sorted on the key, rows with equal keys in any order (the
\* queries name no second sort key).
order_by_desc(S, key) ==
    { s \in [1 .. Cardinality(S) -> S] :
        /\ \A i, j \in DOMAIN s : i # j => s[i] # s[j]
        /\ \A i, j \in DOMAIN s : i < j => key[s[i]] >= key[s[j]] }

\* The sort keys: the column Post.timestamp, the column Post.deleted_at.
post_timestamp == [id \in 1 .. Len(posts) |-> posts[id].timestamp]

post_deleted_at == [id \in 1 .. Len(posts) |-> posts[id].deleted_at]

\* timeline_rows with the soft-delete filter left out of the unfiltered query.
timeline_rows_with_deleted(filter) ==
    LET selected_channel == form_get(filter, "None")
    IN  IF selected_channel \in ALLOWED_CHANNELS
        THEN { id \in 1 .. Len(posts) :
                 posts[id].channel = selected_channel /\ ~posts[id].is_deleted }
        ELSE 1 .. Len(posts)

\* timeline_rows that filters on whatever channel value was sent.
timeline_rows_any_channel(filter) ==
    IF filter.given
    THEN { id \in 1 .. Len(posts) :
             posts[id].channel = filter.value /\ ~posts[id].is_deleted }
    ELSE { id \in 1 .. Len(posts) : ~posts[id].is_deleted }

\* The ids of the rows the timeline's query selects.
timeline_rows(filter) ==
    LET selected_channel == form_get(filter, "None")
    IN  IF selected_channel \in ALLOWED_CHANNELS
        THEN { id \in 1 .. Len(posts) :
                 posts[id].channel = selected_channel /\ ~posts[id].is_deleted }
        ELSE { id \in 1 .. Len(posts) : ~posts[id].is_deleted }

\* The listings the timeline may render for a ?channel= value.
timeline_query(filter) == order_by_desc(timeline_rows(filter), post_timestamp)

mypage_rows(u) ==
    { id \in 1 .. Len(posts) : posts[id].user_id = u /\ ~posts[id].is_deleted }

mypage_query(u) == order_by_desc(mypage_rows(u), post_timestamp)

\* admin_deleted_rows without the filter on the flag.
admin_deleted_rows_all == 1 .. Len(posts)

admin_deleted_rows == { id \in 1 .. Len(posts) : posts[id].is_deleted }

admin_deleted_query == order_by_desc(admin_deleted_rows, post_deleted_at)

\* Like.query.filter_by(user_id, post_id): the matching rows.
like_rows(u, post_id) ==
    { l \in likes : l.user_id = u /\ l.post_id = post_id }

\* .first() of that query: the id of one matching row, 0 for None.
like_first(u, post_id) ==
    IF like_rows(u, post_id) = {} THEN {0}
    ELSE { l.id : l \in like_rows(u, post_id) }

\* The id the store gives a new likes row: one past the largest in use.
next_like_id ==
    IF likes = {} THEN 1
    ELSE (CHOOSE m \in { l.id : l \in likes } :
            \A l \in likes : l.id <= m) + 1

\* like_write without the removal of the row the query found.
like_write_add_only(existing, u, post_id) ==
    likes \cup {[id |-> next_like_id, user_id |-> u, post_id |-> post_id]}

\* The likes table after the commit of a like request that read `existing`.
like_write(existing, u, post_id) ==
    IF existing # 0
    THEN { l \in likes : l.id # existing }
    ELSE likes \cup {[id |-> next_like_id, user_id |-> u, post_id |-> post_id]}

toggled(u, post_id) ==
    [toggles EXCEPT ![u, post_id] = (@ + 1) % 2]

username_taken(username) == \E i \in UserIds : users[i].username = username

\* ---------------------------------------------------------- the pseudonyms
\* hashlib.sha256(raw_string.encode()).hexdigest()[:8].upper(). The digest
\* is kept symbolic: a token is named by the string that was hashed, given
\* as the parts the f-string joins with "-". Equal strings give equal
\* tokens; whether different strings collide is left open.
sha256_hexdigest8(raw_string) == [sha256 |-> raw_string]

\* Post.get_anonymous_id that hashes the author's id in place of the post's.
Post_get_anonymous_id_by_author(rows, id) ==
    sha256_hexdigest8(<<"post", rows[id].user_id, SECRET_KEY>>)

\* Post.get_anonymous_id of the row with the given id of the table `rows`.
Post_get_anonymous_id(rows, id) ==
    sha256_hexdigest8(<<"post", id, SECRET_KEY>>)

\* Comment.get_anonymous_id of the row with the given id of the table `rows`.
Comment_get_anonymous_id(rows, id) ==
    sha256_hexdigest8(<<"comment", rows[id].post_id, id, SECRET_KEY>>)

\* ------------------------------------------------------------ the handlers
\* POST /register up to its query: the checks, then the request waits to
\* insert.
register_check(username, password) ==
    /\ worker_free
    /\ IF username = "" \/ ~password
       THEN /\ resp' = Response("register", "missing", <<>>)
            /\ UNCHANGED inflight
       ELSE IF username_taken(username)
       THEN /\ resp' = Response("register", "taken", <<>>)
            /\ UNCHANGED inflight
       ELSE /\ inflight' = inflight (+)
                              SetToBag({[op |-> "register", username |-> username]})
            /\ UNCHANGED resp
    /\ UNCHANGED <<users, posts, likes, comments, now, toggles>>

\* register_commit on a users table without the unique index on username.
register_commit_no_index(r) ==
    /\ BagIn(r, inflight)
    /\ r.op = "register"
    /\ users' = Append(users, [username |-> r.username])
    /\ resp' = Response("register", "ok", <<>>)
    /\ inflight' = inflight (-) SetToBag({r})
    /\ UNCHANGED <<posts, likes, comments, now, toggles>>

\* POST /register from db.session.add to the commit; the unique index on
\* users.username refuses a second row with the name.
register_commit(r) ==
    /\ BagIn(r, inflight)
    /\ r.op = "register"
    /\ IF username_taken(r.username)
       THEN /\ resp' = Response("register", "integrity_error", <<>>)
            /\ UNCHANGED users
       ELSE /\ users' = Append(users, [username |-> r.username])
            /\ resp' = Response("register", "ok", <<>>)
    /\ inflight' = inflight (-) SetToBag({r})
    /\ UNCHANGED <<posts, likes, comments, now, toggles>>

\* post that measures the text as sent, before stripping it.
post_unstripped_length(u, content, channel) ==
    LET text == strip(form_text(content))
        chan == form_get(channel, "general")
    IN  /\ u \in UserIds
        /\ IF text = <<>>
           THEN /\ resp' = Response("post", "empty", <<>>)
                /\ UNCHANGED posts
           ELSE IF len(form_text(content)) > MAX_CONTENT
           THEN /\ resp' = Response("post", "too_long", <<>>)
                /\ UNCHANGED posts
           ELSE /\ Len(posts) < MaxPosts
                /\ posts' = Append(posts,
                      [content |-> text, timestamp |-> now, user_id |-> u,
                       channel |-> IF chan \in ALLOWED_CHANNELS
                                   THEN chan ELSE "general",
                       is_deleted |-> FALSE, deleted_at |-> NULL])
                /\ resp' = Response("post", "ok", <<>>)
        /\ UNCHANGED <<users, likes, comments, now, inflight, toggles>>

\* post that stores the channel as it was sent.
post_channel_as_sent(u, content, channel) ==
    LET text == strip(form_text(content))
        chan == form_get(channel, "general")
    IN  /\ u \in UserIds
        /\ IF text = <<>>
           THEN /\ resp' = Response("post", "empty", <<>>)
                /\ UNCHANGED posts
           ELSE IF len(text) > MAX_CONTENT
           THEN /\ resp' = Response("post", "too_long", <<>>)
                /\ UNCHANGED posts
           ELSE /\ Len(posts) < MaxPosts
                /\ posts' = Append(posts,
                      [content |-> text, timestamp |-> now, user_id |-> u,
                       channel |-> chan,
                       is_deleted |-> FALSE, deleted_at |-> NULL])
                /\ resp' = Response("post", "ok", <<>>)
        /\ UNCHANGED <<users, likes, comments, now, inflight, toggles>>

\* POST /post
post(u, content, channel) ==
    LET text == strip(form_text(content))
        chan == form_get(channel, "general")
    IN  /\ u \in UserIds
        /\ IF text = <<>>
           THEN /\ resp' = Response("post", "empty", <<>>)
                /\ UNCHANGED posts
           ELSE IF len(text) > MAX_CONTENT
           THEN /\ resp' = Response("post", "too_long", <<>>)
                /\ UNCHANGED posts
           ELSE /\ Len(posts) < MaxPosts
                /\ posts' = Append(posts,
                      [content |-> text, timestamp |-> now, user_id |-> u,
                       channel |-> IF chan \in ALLOWED_CHANNELS
                                   THEN chan ELSE "general",
                       is_deleted |-> FALSE, deleted_at |-> NULL])
                /\ resp' = Response("post", "ok", <<>>)
        /\ UNCHANGED <<users, likes, comments, now, inflight, toggles>>

\* delete_post that no longer finds a post once it is soft-deleted.
delete_post_once(u, post_id) ==
    /\ u \in UserIds
    /\ IF ~post_exists(post_id) \/ posts[post_id].is_deleted
       THEN /\ resp' = Response("delete_post", "not_found", <<>>)
            /\ UNCHANGED posts
       ELSE IF posts[post_id].user_id # u
       THEN /\ resp' = Response("delete_post", "forbidden", <<>>)
            /\ UNCHANGED posts
       ELSE /\ posts' = [posts EXCEPT ![post_id].is_deleted = TRUE,
                                      ![post_id].deleted_at = now]
            /\ resp' = Response("delete_post", "ok", <<>>)
    /\ UNCHANGED <<users, likes, comments, now, inflight, toggles>>

\* delete_post without the check that the requester is the author.
delete_post_any_user(u, post_id) ==
    /\ u \in UserIds
    /\ IF ~post_exists(post_id)
       THEN /\ resp' = Response("delete_post", "not_found", <<>>)
            /\ UNCHANGED posts
       ELSE /\ posts' = [posts EXCEPT ![post_id].is_deleted = TRUE,
                                      ![post_id].deleted_at = now]
            /\ resp' = [Response("delete_post", "ok", <<>>)
                          EXCEPT !.repeat = posts[post_id].is_deleted]
    /\ UNCHANGED <<users, likes, comments, now, inflight, toggles>>

\* delete_post that sets the flag and leaves deleted_at as it is.
delete_post_flag_only(u, post_id) ==
    /\ u \in UserIds
    /\ IF ~post_exists(post_id)
       THEN /\ resp' = Response("delete_post", "not_found", <<>>)
            /\ UNCHANGED posts
       ELSE IF posts[post_id].user_id # u
       THEN /\ resp' = Response("delete_post", "forbidden", <<>>)
            /\ UNCHANGED posts
       ELSE /\ posts' = [posts EXCEPT ![post_id].is_deleted = TRUE]
            /\ resp' = [Response("delete_post", "ok", <<>>)
                          EXCEPT !.repeat = posts[post_id].is_deleted]
    /\ UNCHANGED <<users, likes, comments, now, inflight, toggles>>

\* delete_post that removes the row from the table.
delete_post_hard(u, post_id) ==
    /\ u \in UserIds
    /\ IF ~post_exists(post_id)
       THEN /\ resp' = Response("delete_post", "not_found", <<>>)
            /\ UNCHANGED posts
       ELSE IF posts[post_id].user_id # u
       THEN /\ resp' = Response("delete_post", "forbidden", <<>>)
            /\ UNCHANGED posts
       ELSE /\ posts' = SubSeq(posts, 1, post_id - 1)
                            \o SubSeq(posts, post_id + 1, Len(posts))
            /\ resp' = Response("delete_post", "ok", <<>>)
    /\ UNCHANGED <<users, likes, comments, now, inflight, toggles>>

\* delete_post that flips the flag, so that a second request restores the post.
delete_post_toggle(u, post_id) ==
    /\ u \in UserIds
    /\ IF ~post_exists(post_id)
       THEN /\ resp' = Response("delete_post", "not_found", <<>>)
            /\ UNCHANGED posts
       ELSE IF posts[post_id].user_id # u
       THEN /\ resp' = Response("delete_post", "forbidden", <<>>)
            /\ UNCHANGED posts
       ELSE /\ posts' = [posts EXCEPT ![post_id].is_deleted = ~@,
                                      ![post_id].deleted_at = now]
            /\ resp' = [Response("delete_post", "ok", <<>>)
                          EXCEPT !.repeat = posts[post_id].is_deleted]
    /\ UNCHANGED <<users, likes, comments, now, inflight, toggles>>

\* POST /delete_post/<post_id>
delete_post(u, post_id) ==
    /\ u \in UserIds
    /\ IF ~post_exists(post_id)
       THEN /\ resp' = Response("delete_post", "not_found", <<>>)
            /\ UNCHANGED posts
       ELSE IF posts[post_id].user_id # u
       THEN /\ resp' = Response("delete_post", "forbidden", <<>>)
            /\ UNCHANGED posts
       ELSE /\ posts' = [posts EXCEPT ![post_id].is_deleted = TRUE,
                                      ![post_id].deleted_at = now]
            /\ resp' = [Response("delete_post", "ok", <<>>)
                          EXCEPT !.repeat = posts[post_id].is_deleted]
    /\ UNCHANGED <<users, likes, comments, now, inflight, toggles>>

\* POST /like/<post_id> up to its query.
like_query(u, post_id) ==
    /\ u \in UserIds
    /\ worker_free
    /\ IF ~post_exists(post_id)
       THEN /\ resp' = Response("like", "not_found", <<>>)
            /\ UNCHANGED inflight
       ELSE /\ \E existing \in like_first(u, post_id) :
                 inflight' = inflight (+)
                     SetToBag({[op |-> "like", user |-> u, post_id |-> post_id,
                                existing |-> existing]})
            /\ UNCHANGED resp
    /\ UNCHANGED <<users, posts, likes, comments, now, toggles>>

\* POST /like/<post_id> from the delete or add to the commit.
like_commit(r) ==
    /\ BagIn(r, inflight)
    /\ r.op = "like"
    /\ r.existing = 0 => next_like_id <= MaxLikeId
    /\ likes' = like_write(r.existing, r.user, r.post_id)
    /\ toggles' = toggled(r.user, r.post_id)
    /\ resp' = Response("like", "ok", <<>>)
    /\ inflight' = inflight (-) SetToBag({r})
    /\ UNCHANGED <<users, posts, comments, now>>

\* POST /like/<post_id> with its query and its commit in one step.
like(u, post_id) ==
    /\ u \in UserIds
    /\ IF ~post_exists(post_id)
       THEN /\ resp' = Response("like", "not_found", <<>>)
            /\ UNCHANGED <<likes, toggles>>
       ELSE /\ \E existing \in like_first(u, post_id) :
                 /\ existing = 0 => next_like_id <= MaxLikeId
                 /\ likes' = like_write(existing, u, post_id)
            /\ toggles' = toggled(u, post_id)
            /\ resp' = Response("like", "ok", <<>>)
    /\ UNCHANGED <<users, posts, comments, now, inflight>>

\* POST /register with its check and its commit in one step.
register(username, password) ==
    /\ IF username = "" \/ ~password
       THEN /\ resp' = Response("register", "missing", <<>>)
            /\ UNCHANGED users
       ELSE IF username_taken(username)
       THEN /\ resp' = Response("register", "taken", <<>>)
            /\ UNCHANGED users
       ELSE /\ users' = Append(users, [username |-> username])
            /\ resp' = Response("register", "ok", <<>>)
    /\ UNCHANGED <<posts, likes, comments, now, inflight, toggles>>

\* comment without the lookup of the post.
comment_no_lookup(u, post_id, content) ==
    LET text == strip(form_text(content))
    IN  /\ u \in UserIds
        /\ IF text = <<>>
           THEN /\ resp' = Response("comment", "empty", <<>>)
                /\ UNCHANGED comments
           ELSE /\ Len(comments) < MaxComments
                /\ comments' = Append(comments,
                      [content |-> text, timestamp |-> now, user_id |-> u,
                       post_id |-> post_id])
                /\ resp' = Response("comment", "ok", <<>>)
        /\ UNCHANGED <<users, posts, likes, now, inflight, toggles>>

\* comment that tests the text as sent for emptiness, before stripping it.
comment_unstripped(u, post_id, content) ==
    LET text == strip(form_text(content))
    IN  /\ u \in UserIds
        /\ IF ~post_exists(post_id)
           THEN /\ resp' = Response("comment", "not_found", <<>>)
                /\ UNCHANGED comments
           ELSE IF form_text(content) = <<>>
           THEN /\ resp' = Response("comment", "empty", <<>>)
                /\ UNCHANGED comments
           ELSE /\ Len(comments) < MaxComments
                /\ comments' = Append(comments,
                      [content |-> text, timestamp |-> now, user_id |-> u,
                       post_id |-> post_id])
                /\ resp' = Response("comment", "ok", <<>>)
        /\ UNCHANGED <<users, posts, likes, now, inflight, toggles>>

\* POST /comment/<post_id>
comment(u, post_id, content) ==
    LET text == strip(form_text(content))
    IN  /\ u \in UserIds
        /\ IF ~post_exists(post_id)
           THEN /\ resp' = Response("comment", "not_found", <<>>)
                /\ UNCHANGED comments
           ELSE IF text = <<>>
           THEN /\ resp' = Response("comment", "empty", <<>>)
                /\ UNCHANGED comments
           ELSE /\ Len(comments) < MaxComments
                /\ comments' = Append(comments,
                      [content |-> text, timestamp |-> now, user_id |-> u,
                       post_id |-> post_id])
                /\ resp' = Response("comment", "ok", <<>>)
        /\ UNCHANGED <<users, posts, likes, now, inflight, toggles>>

\* GET /timeline
timeline(u, filter) ==
    /\ u \in UserIds
    /\ \E listing \in timeline_query(filter) :
         resp' = Response("timeline", "ok", listing)
    /\ UNCHANGED <<users, posts, likes, comments, now, inflight, toggles>>

\* GET /mypage
mypage(u) ==
    /\ u \in UserIds
    /\ \E listing \in mypage_query(u) :
         resp' = Response("mypage", "ok", listing)
    /\ UNCHANGED <<users, posts, likes, comments, now, inflight, toggles>>

\* GET /admin/deleted_posts
admin_deleted_posts(u) ==
    /\ u \in UserIds
    /\ \E listing \in admin_deleted_query :
         resp' = Response("admin_deleted_posts", "ok", listing)
    /\ UNCHANGED <<users, posts, likes, comments, now, inflight, toggles>>

\* ------------------------------------------------------- the specifications
RegisterCheck ==
    \E username \in Usernames \cup {""}, password \in BOOLEAN :
        register_check(username, password)

RegisterCommit == \E r \in BagToSet(inflight) : register_commit(r)

Register ==
    \E username \in Usernames \cup {""}, password \in BOOLEAN :
        register(username, password)

DeletePost == \E u \in UserIds, post_id \in PostIds : delete_post(u, post_id)

LikeQuery == \E u \in UserIds, post_id \in PostIds : like_query(u, post_id)

LikeCommit == \E r \in BagToSet(inflight) : like_commit(r)

Like == \E u \in UserIds, post_id \in PostIds : like(u, post_id)

Comment == \E u \in UserIds, post_id \in PostIds, content \in CommentContents :
               comment(u, post_id, content)

Timeline == \E u \in UserIds, filter \in Filters : timeline(u, filter)

Mypage == \E u \in UserIds : mypage(u)

AdminDeletedPosts == \E u \in UserIds : admin_deleted_posts(u)

\* The same requests with some of their inputs held fixed.
PostOne == \E content \in Contents : post(1, content, Unsent)

PostPlain == \E u \in UserIds, content \in Contents : post(u, content, Unsent)

PostLong ==
    \E u \in UserIds, content \in LongContents, channel \in {Unsent, Sent("bogus")} :
        post(u, content, channel)

PostChannel ==
    \E u \in UserIds, channel \in Channels :
        post(u, Sent(<<Ws(1), Ch(1), Ws(1)>>), channel)

LikeFirst == like(1, 1)

CommentFirst == \E content \in CommentContents : comment(1, 1, content)

\* Like requests interleaved with each other.
Next ==
    \/ Register
    \/ PostOne
    \/ LikeQuery
    \/ LikeCommit

Spec == Init /\ [][Next]_vars

\* Like requests of every user on every post, served one after the other.
NextLikes ==
    \/ Register
    \/ PostOne
    \/ DeletePost
    \/ Like
    \/ CommentFirst

SpecLikes == Init /\ [][NextLikes]_vars

\* Posts of every user, deleted and commented on by every user.
NextSeq ==
    \/ Register
    \/ PostPlain
    \/ DeletePost
    \/ LikeFirst
    \/ Comment

SpecSeq == Init /\ [][NextSeq]_vars

\* Posts with texts at and around the length limit.
NextPost ==
    \/ Register
    \/ PostLong
    \/ DeletePost
    \/ LikeFirst

SpecPost == Init /\ [][NextPost]_vars

\* Posts and deletions while the clock advances.
NextClock ==
    \/ Tick
    \/ Register
    \/ PostPlain
    \/ DeletePost
    \/ LikeFirst

SpecClock == Init /\ [][NextClock]_vars

\* Posts into channels, deletions, and the listings.
NextViews ==
    \/ Register
    \/ PostChannel
    \/ DeletePost
    \/ LikeFirst
    \/ CommentFirst
    \/ Timeline
    \/ Mypage
    \/ AdminDeletedPosts

SpecViews == Init /\ [][NextViews]_vars

\* Posts into channels, deletions, and the timeline under every filter.
NextChannels ==
    \/ Register
    \/ PostChannel
    \/ DeletePost
    \/ Timeline

SpecChannels == Init /\ [][NextChannels]_vars

\* The listings while the clock advances.
NextOrder == Tick \/ NextViews

SpecOrder == Init /\ [][NextOrder]_vars

\* Comments of every user on every post, with every text.
NextComments ==
    \/ Register
    \/ PostOne
    \/ DeletePost
    \/ Comment

SpecComments == Init /\ [][NextComments]_vars

\* Registrations interleaved with each other.
NextRegister ==
    \/ RegisterCheck
    \/ RegisterCommit
    \/ PostPlain
    \/ DeletePost

SpecRegister == Init /\ [][NextRegister]_vars

\* ---------------------------------------------------------------- claims
AllUserIds == 1 .. Cardinality(Usernames)

\* C1: in every reachable state, also under interleaved like requests of one
\* user on one post, the likes table holds at most one row for every
\* (user, post) pair.
C1_OneLikePerPair ==
    \A u \in AllUserIds, p \in PostIds : Cardinality(like_rows(u, p)) <= 1

\* C2: toggle law. Served one after the other, the like requests of a user on
\* a post leave no row for the pair after an even number of them and exactly
\* one row after an odd number, whatever other users do and whatever happens
\* to other posts.
C2_ToggleLaw ==
    \A u \in AllUserIds, p \in PostIds :
        Cardinality(like_rows(u, p)) = toggles[u, p]

\* A like request has just removed the last row: some pair was toggled twice,
\* while a post exists to be liked.
C2_Witness ==
    /\ resp.op = "like"
    /\ resp.status = "ok"
    /\ likes = {}
    /\ \A u \in AllUserIds, p \in PostIds : toggles[u, p] = 0

\* C4: a delete_post request of a user who is not the post's author is
\* refused and changes no post (flag, deletion time and the timeline's rows
\* stay as they are); a post's soft-delete flag is only ever set by a
\* delete_post request of its author.
C4_OnlyAuthorDeletes ==
    [][ /\ \A u \in UserIds, p \in PostIds :
             (delete_post(u, p) /\ post_exists(p) /\ posts[p].user_id # u)
                 => /\ posts' = posts
                    /\ resp'.status = "forbidden"
                    /\ (timeline_rows(Unsent))' = timeline_rows(Unsent)
        /\ \A p \in 1 .. Len(posts) :
             (~posts[p].is_deleted /\ posts'[p].is_deleted)
                 => delete_post(posts[p].user_id, p) ]_vars

\* A refused delete_post has been answered and the post is still listed.
C4_Witness ==
    /\ resp.op = "delete_post"
    /\ resp.status = "forbidden"
    /\ timeline_rows(Unsent) # {}

\* C7: a comment request on a soft-deleted post is answered not-found and
\* stores no comment.
C7_NoCommentOnDeleted ==
    [][ \A u \in UserIds, p \in PostIds, c \in CommentContents :
          (comment(u, p, c) /\ post_exists(p) /\ posts[p].is_deleted)
              => (comments' = comments /\ resp'.status = "not_found") ]_vars

\* C3: whatever was posted, deleted, liked and commented, no listing of the
\* timeline (any ?channel= value, sent or not, valid or not) and no mypage
\* listing holds a soft-deleted post.
C3_NoDeletedListed ==
    /\ \A f \in Filters : \A l \in timeline_query(f) :
         \A i \in DOMAIN l : ~posts[l[i]].is_deleted
    /\ \A u \in UserIds : \A l \in mypage_query(u) :
         \A i \in DOMAIN l : ~posts[l[i]].is_deleted
    /\ resp.op \in {"timeline", "mypage"}
         => \A i \in DOMAIN resp.body : ~posts[resp.body[i]].is_deleted

\* A timeline was rendered with rows while a soft-deleted post is stored.
C3_Witness ==
    /\ resp.op = "timeline"
    /\ resp.body # <<>>
    /\ \E id \in 1 .. Len(posts) : posts[id].is_deleted
    /\ comments # <<>>
    /\ likes # {}

NotDeleted == { id \in 1 .. Len(posts) : ~posts[id].is_deleted }

InChannel(c) == { id \in NotDeleted : posts[id].channel = c }

\* C8: the timeline rendered for a ?channel= value of the allowed set lists
\* exactly the posts of that channel that are not soft-deleted; for a value
\* outside the set, or none, exactly all posts that are not soft-deleted;
\* the request is answered, never refused.
C8_TimelineByChannel ==
    [][ \A u \in UserIds, f \in Filters :
          (resp'.op = "timeline" /\ timeline(u, f))
              => /\ resp'.status = "ok"
                 /\ Len(resp'.body) = Cardinality(Range(resp'.body))
                 /\ Range(resp'.body) =
                        IF f.given /\ f.value \in ALLOWED_CHANNELS
                        THEN InChannel(f.value) ELSE NotDeleted ]_vars

\* A rendered timeline that left out a post that is not soft-deleted: one
\* filtered on a channel.
C8_Witness ==
    /\ resp.op = "timeline"
    /\ resp.body # <<>>
    /\ NotDeleted \ Range(resp.body) # {}

\* C9: a delete_post of the author is answered with success whether or not
\* the post is already soft-deleted, leaves the flag set, and never moves
\* the deletion time back.
C9_DeleteIdempotent ==
    [][ \A u \in UserIds, p \in PostIds :
          (delete_post(u, p) /\ post_exists(p) /\ posts[p].user_id = u)
              => /\ resp'.status = "ok"
                 /\ posts'[p].is_deleted
                 /\ posts'[p].deleted_at >= posts[p].deleted_at
                 /\ posts'[p].deleted_at # NULL ]_vars

\* The author's delete_post of an already soft-deleted post has been
\* answered, at a later time than the post's creation.
C9_Witness ==
    /\ resp.op = "delete_post"
    /\ resp.status = "ok"
    /\ resp.repeat
    /\ \E p \in 1 .. Len(posts) :
         posts[p].is_deleted /\ posts[p].deleted_at > posts[p].timestamp

\* C10: a rendered timeline is ordered by creation time, newest first, and
\* posts with equal creation times are in insertion order.
C10_StableOrder ==
    resp.op = "timeline"
        => \A i, j \in DOMAIN resp.body :
             i < j => \/ posts[resp.body[i]].timestamp > posts[resp.body[j]].timestamp
                      \/ /\ posts[resp.body[i]].timestamp = posts[resp.body[j]].timestamp
                         /\ resp.body[i] < resp.body[j]

TrimmedLength(content) == len(strip(form_text(content)))

\* C5: a post request whose text has 1 to 140 characters once stripped
\* stores exactly one new post and succeeds; one whose stripped text is
\* empty or longer stores nothing and is refused.
C5_ContentLength ==
    [][ \A u \in UserIds, c \in LongContents, ch \in {Unsent, Sent("bogus")} :
          (resp'.op = "post" /\ post(u, c, ch))
              => IF TrimmedLength(c) \in 1 .. MAX_CONTENT
                 THEN /\ Len(posts') = Len(posts) + 1
                      /\ SubSeq(posts', 1, Len(posts)) = posts
                      /\ len(posts'[Len(posts')].content) = TrimmedLength(c)
                      /\ resp'.status = "ok"
                 ELSE /\ posts' = posts
                      /\ resp'.status \in {"empty", "too_long"} ]_vars

\* A post of exactly 140 characters was stored and one of 141 refused.
C5_Witness ==
    /\ resp.op = "post"
    /\ resp.status = "too_long"
    /\ \E id \in 1 .. Len(posts) : len(posts[id].content) = MAX_CONTENT

\* C6: a post request with a channel outside the allowed set is refused and
\* stores no post.
C6_InvalidChannelRefused ==
    [][ \A u \in UserIds, c \in LongContents, ch \in {Sent("bogus")} :
          (ch.given /\ ch.value \notin ALLOWED_CHANNELS /\ post(u, c, ch))
              => (posts' = posts /\ resp'.status # "ok") ]_vars

\* C11: a like, delete_post or comment request for a post id that no row
\* has is answered not-found and leaves posts, comments and likes as they
\* are.
C11_NotFound ==
    [][ \A u \in UserIds, p \in PostIds :
          ~post_exists(p)
              => /\ delete_post(u, p)
                      => /\ resp'.status = "not_found"
                         /\ UNCHANGED <<posts, comments, likes>>
                 /\ like(u, p)
                      => /\ resp'.status = "not_found"
                         /\ UNCHANGED <<posts, comments, likes>>
                 /\ \A c \in CommentContents :
                      comment(u, p, c)
                          => /\ resp'.status = "not_found"
                             /\ UNCHANGED <<posts, comments, likes>> ]_vars

\* A comment request was answered not-found while another post exists.
C11_Witness ==
    /\ resp.op = "comment"
    /\ resp.status = "not_found"
    /\ posts # <<>>

\* C12: a comment request whose text is empty once stripped is refused and
\* stores no comment; every stored comment has a non-empty text with no
\* leading or trailing whitespace.
C12_CommentNotEmpty ==
    /\ [](\A i \in 1 .. Len(comments) :
            /\ comments[i].content # <<>>
            /\ strip(comments[i].content) = comments[i].content
            /\ len(comments[i].content) > 0)
    /\ [][ resp'.op = "comment"
             => \A u \in UserIds, p \in PostIds, c \in CommentContents :
                  (post_exists(p) /\ strip(form_text(c)) = <<>> /\ comment(u, p, c))
                      => (comments' = comments /\ resp'.status = "empty") ]_vars

\* An empty comment was refused after another one had been stored.
C12_Witness ==
    /\ resp.op = "comment"
    /\ resp.status = "empty"
    /\ comments # <<>>

\* C13: the pseudonym of a post is the token of its kind tag, its id and the
\* secret, that of a comment the token of its kind tag, its post's id, its
\* id and the secret; a store that differs only in the author of the row
\* gives the same pseudonym, and no request (like, comment, delete_post,
\* post, a rendering) changes the pseudonym of a stored row.
C13_PseudonymFunction ==
    /\ [](/\ \A p \in 1 .. Len(posts) :
              /\ Post_get_anonymous_id(posts, p)
                     = sha256_hexdigest8(<<"post", p, SECRET_KEY>>)
              /\ \A u \in AllUserIds :
                     Post_get_anonymous_id([posts EXCEPT ![p].user_id = u], p)
                         = Post_get_anonymous_id(posts, p)
          /\ \A c \in 1 .. Len(comments) :
              /\ Comment_get_anonymous_id(comments, c)
                     = sha256_hexdigest8(
                           <<"comment", comments[c].post_id, c, SECRET_KEY>>)
              /\ \A u \in AllUserIds :
                     Comment_get_anonymous_id(
                         [comments EXCEPT ![c].user_id = u], c)
                         = Comment_get_anonymous_id(comments, c))
    /\ [][ /\ \A p \in 1 .. Len(posts) :
                Post_get_anonymous_id(posts', p) = Post_get_anonymous_id(posts, p)
           /\ \A c \in 1 .. Len(comments) :
                Comment_get_anonymous_id(comments', c)
                    = Comment_get_anonymous_id(comments, c) ]_vars

\* Two posts of different authors, one of them soft-deleted, with a like and
\* a comment stored.
C13_Witness ==
    /\ Len(posts) = 2
    /\ posts[1].user_id # posts[2].user_id
    /\ \E p \in 1 .. Len(posts) : posts[p].is_deleted
    /\ likes # {}
    /\ comments # <<>>

\* C14: every stored post's channel is one of the allowed channels, whatever
\* channel value the post requests carried (none, a valid one, an invalid
\* one).
C14_ChannelAllowed ==
    \A p \in 1 .. Len(posts) : posts[p].channel \in ALLOWED_CHANNELS

\* A post request has stored a row, and rows in two channels exist.
C14_Witness ==
    /\ resp.op = "post"
    /\ resp.status = "ok"
    /\ \E p, q \in 1 .. Len(posts) :
         posts[p].channel = "general" /\ posts[q].channel = "job"

\* C15: a post's soft-delete flag is set exactly when its deletion time is
\* set, and a newly stored post has the flag unset and no deletion time.
C15_FlagWithTime ==
    /\ [](\A p \in 1 .. Len(posts) :
            posts[p].is_deleted <=> posts[p].deleted_at # NULL)
    /\ [][ Len(posts') > Len(posts)
             => /\ ~posts'[Len(posts')].is_deleted
                /\ posts'[Len(posts')].deleted_at = NULL ]_vars

\* A post was stored while an older one is soft-deleted.
C15_Witness ==
    /\ resp.op = "post"
    /\ resp.status = "ok"
    /\ \E p, q \in 1 .. Len(posts) :
         /\ posts[p].is_deleted
         /\ posts[p].deleted_at # NULL
         /\ ~posts[q].is_deleted

\* C16: no request removes a post row or changes a row's content, author,
\* channel or creation time; a row changes only by a delete_post of its
\* author for that row, which leaves every other row as it is; post, like
\* and comment requests leave every existing row as it is.
C16_PostsFrame ==
    [][ /\ Len(posts') >= Len(posts)
        /\ \A p \in 1 .. Len(posts) :
             /\ posts'[p].content = posts[p].content
             /\ posts'[p].user_id = posts[p].user_id
             /\ posts'[p].channel = posts[p].channel
             /\ posts'[p].timestamp = posts[p].timestamp
             /\ posts'[p] # posts[p]
                  => /\ delete_post(posts[p].user_id, p)
                     /\ \A q \in 1 .. Len(posts) : q # p => posts'[q] = posts[q]
        /\ resp'.op \in {"post", "like", "comment"}
             => SubSeq(posts', 1, Len(posts)) = posts ]_vars

\* A delete_post has succeeded on one of two posts, with a like and a
\* comment stored; the other post is not soft-deleted.
C16_Witness ==
    /\ resp.op = "delete_post"
    /\ resp.status = "ok"
    /\ Len(posts) = 2
    /\ \E q \in 1 .. Len(posts) : ~posts[q].is_deleted
    /\ likes # {}
    /\ comments # <<>>

\* C17: every stored post is in exactly one of the unfiltered timeline and
\* the listing of admin_deleted_posts, and that listing holds exactly the
\* posts whose soft-delete flag is set.
C17_TimelineOrAdmin ==
    /\ \A t \in timeline_query(Unsent), a \in admin_deleted_query :
         /\ Range(t) \cap Range(a) = {}
         /\ Range(t) \cup Range(a) = 1 .. Len(posts)
         /\ Range(a) = { p \in 1 .. Len(posts) : posts[p].is_deleted }
         /\ Len(t) + Len(a) = Len(posts)
    /\ resp.op = "admin_deleted_posts"
         => Range(resp.body) = { p \in 1 .. Len(posts) : posts[p].is_deleted }

\* The listing of admin_deleted_posts was rendered with a row while the
\* timeline has one too.
C17_Witness ==
    /\ resp.op = "admin_deleted_posts"
    /\ resp.body # <<>>
    /\ timeline_rows(Unsent) # {}

\* C18: a post whose soft-delete flag is set keeps it set over every step,
\* and stays out of the timeline's rows under every filter.
C18_DeleteIrreversible ==
    [][ \A p \in 1 .. Len(posts) :
          posts[p].is_deleted
              => /\ posts'[p].is_deleted
                 /\ \A f \in Filters : p \notin (timeline_rows(f))' ]_vars

\* The author has asked again for the deletion of a soft-deleted post.
C18_Witness ==
    /\ resp.op = "delete_post"
    /\ resp.status = "ok"
    /\ resp.repeat
    /\ \A p \in 1 .. Len(posts) : posts[p].is_deleted

\* C19: no two rows of the users table hold the same username, also when
\* registrations for one name are between their check and their insert at
\* the same time; a registration for a name that is taken, found at the
\* check or at the insert, adds no row.
C19_UniqueUsername ==
    /\ [](\A i, j \in UserIds : i # j => users[i].username # users[j].username)
    /\ [][ \A n \in Usernames :
            username_taken(n)
                => /\ register_check(n, TRUE)
                        => (users' = users /\ resp'.status = "taken")
                   /\ \A r \in BagToSet(inflight) :
                        (r.username = n /\ register_commit(r))
                            => /\ users' = users
                               /\ resp'.status = "integrity_error" ]_vars

\* The insert of a registration was refused: the name was free at its check
\* and taken by another registration before its commit.
C19_Witness ==
    /\ resp.op = "register"
    /\ resp.status = "integrity_error"
    /\ users # <<>>
====
